---- MODULE Spec2Model ----
(***************************************************************************)
(* NXP i.MX6UL configuration and support (soc/nxp/imx6ul/imx6ul.go):       *)
(* the peripheral instances with their clock gates, and the accessors      *)
(* SiliconVersion, UniqueID, Model and HAB.                                *)
(*                                                                         *)
(* A uint32 is a vector of 32 bits (bit 0 the least significant): TLC's    *)
(* integers are 32-bit signed, and the code's shifts and masks are         *)
(* modelled bit by bit, as the hardware does them.                         *)
(***************************************************************************)
EXTENDS Integers, FiniteSets, Sequences, TLC

\* ------------------------------------------------------------ uint32

Bits == 0..31

Pow2(k) == 2 ^ k

\* The uint32 whose upper half-word is hi and lower half-word is lo.
Word(hi, lo) ==
    [i \in Bits |-> IF i < 16 THEN (lo \div Pow2(i)) % 2
                              ELSE (hi \div Pow2(i - 16)) % 2]

\* A small literal (n < 2^16) as a uint32.
U32(n) == Word(0, n)

\* v >> k
Shr(v, k) == [i \in Bits |-> IF i + k <= 31 THEN v[i + k] ELSE 0]

\* v << k (bits shifted past bit 31 are lost)
Shl(v, k) == [i \in Bits |-> IF i >= k THEN v[i - k] ELSE 0]

\* a & b
And(a, b) == [i \in Bits |-> a[i] * b[i]]

\* a | b
Or(a, b) == [i \in Bits |-> IF a[i] + b[i] > 0 THEN 1 ELSE 0]

\* ^a
Not(a) == [i \in Bits |-> 1 - a[i]]

\* byte(v): Go's conversion of a uint32 to a uint8 keeps the low 8 bits.
Byte(v) ==
    v[0] + 2 * v[1] + 4 * v[2] + 8 * v[3]
    + 16 * v[4] + 32 * v[5] + 64 * v[6] + 128 * v[7]

\* ------------------------------------------------- registers and gates

\* Chip Silicon Version register (USB_ANALOG_DIGPROG = 0x020c8260).
USB_ANALOG_DIGPROG == 34374240

\* Clock gating registers CCM_CCGR1 (0x020c406c), CCM_CCGR2 (0x020c4070) and
\* CCM_CCGR6 (0x020c4080), and the position of gate field CGn, 2 * n.
CCM_CCGR1 == 34357356
CCM_CCGR2 == 34357360
CCM_CCGR6 == 34357376

CCGRx_CG0 == 0
CCGRx_CG1 == 2
CCGRx_CG2 == 4
CCGRx_CG3 == 6
CCGRx_CG5 == 10
CCGRx_CG6 == 12
CCGRx_CG14 == 28

\* The control registers the peripheral instances name.
CCGRs == {CCM_CCGR1, CCM_CCGR2, CCM_CCGR6}

\* Chip family codes compared by Model().
IMX6UL == 100
IMX6ULL == 101

\* Peripheral instances: the clock gate (register, position) each one is
\* constructed with. CCGR = 0 is Go's zero value of an omitted field: the
\* instance names no gate.
NoGate == [CCGR |-> 0, CG |-> 0]

\* I2C1 constructed with the gate's number (3) where its position
\* (CCGRx_CG3) belongs.
PeripheralsGateNumber ==
    [CSU    |-> [CCGR |-> CCM_CCGR1, CG |-> CCGRx_CG14],
     DCP    |-> NoGate,
     GPIO1  |-> NoGate,
     I2C1   |-> [CCGR |-> CCM_CCGR2, CG |-> 3],
     I2C2   |-> [CCGR |-> CCM_CCGR2, CG |-> CCGRx_CG5],
     OCOTP  |-> [CCGR |-> CCM_CCGR2, CG |-> CCGRx_CG6],
     RNGB   |-> NoGate,
     SNVS   |-> NoGate,
     TZASC  |-> NoGate,
     UART1  |-> NoGate,
     USB1   |-> [CCGR |-> CCM_CCGR6, CG |-> CCGRx_CG0],
     USB2   |-> [CCGR |-> CCM_CCGR6, CG |-> CCGRx_CG0],
     USDHC1 |-> [CCGR |-> CCM_CCGR6, CG |-> CCGRx_CG1],
     USDHC2 |-> [CCGR |-> CCM_CCGR6, CG |-> CCGRx_CG2]]

Peripherals ==
    [CSU    |-> [CCGR |-> CCM_CCGR1, CG |-> CCGRx_CG14],
     DCP    |-> NoGate,
     GPIO1  |-> NoGate,
     I2C1   |-> [CCGR |-> CCM_CCGR2, CG |-> CCGRx_CG3],
     I2C2   |-> [CCGR |-> CCM_CCGR2, CG |-> CCGRx_CG5],
     OCOTP  |-> [CCGR |-> CCM_CCGR2, CG |-> CCGRx_CG6],
     RNGB   |-> NoGate,
     SNVS   |-> NoGate,
     TZASC  |-> NoGate,
     UART1  |-> NoGate,
     USB1   |-> [CCGR |-> CCM_CCGR6, CG |-> CCGRx_CG0],
     USB2   |-> [CCGR |-> CCM_CCGR6, CG |-> CCGRx_CG0],
     USDHC1 |-> [CCGR |-> CCM_CCGR6, CG |-> CCGRx_CG1],
     USDHC2 |-> [CCGR |-> CCM_CCGR6, CG |-> CCGRx_CG2]]

\* The peripherals whose instance names a clock gate.
Gated == {p \in DOMAIN Peripherals : Peripherals[p].CCGR # 0}


\* ------------------------------------------------------------ bounds

\* Calls of UniqueID() and of the drivers' Init() started in one run.
MaxCalls == 2

\* The execution contexts that run concurrently after bring-up.
Ctx == {"task", "irq"}

\* ---------------------------------------------------------- hardware

\* Secure State Machine states reported by the SNVS.
SSMStates == {"NonSecure", "Trusted", "Secure"}

\* The devices the model runs on: the identification register, the fuse
\* words of bank 0, the content of the clock gating registers at the end of
\* bring-up, the family resolved by bring-up and the SNVS state.
\*   0x00630105  0x12345678 0x9abcdef0   all gates off
\*   0xa5630105  all fuses 0             all gates on (reset value)
\*   0x00640100  0xffffffff 0x00000001   mixed gate fields
\*   0xff6501ff  0x9abcdef0 0x00000000   mixed gate fields
Boards ==
    { [digprog |-> Word(99, 261),
       fuse    |-> <<Word(0, 3), Word(4660, 22136), Word(39612, 57072), Word(0, 7)>>,
       ccgr    |-> [r \in CCGRs |-> Word(0, 0)],
       family  |-> IMX6UL,
       ssm     |-> "NonSecure"],
      [digprog |-> Word(42339, 261),
       fuse    |-> <<Word(0, 0), Word(0, 0), Word(0, 0), Word(0, 0)>>,
       ccgr    |-> [r \in CCGRs |-> Word(65535, 65535)],
       family  |-> IMX6ULL,
       ssm     |-> "Trusted"],
      [digprog |-> Word(100, 256),
       fuse    |-> <<Word(1, 1), Word(65535, 65535), Word(0, 1), Word(0, 0)>>,
       ccgr    |-> [r \in CCGRs |->
                      IF r = CCM_CCGR2 THEN Word(6939, 58596)
                                       ELSE Word(58596, 6939)],
       family  |-> 99,
       ssm     |-> "Secure"],
      [digprog |-> Word(65381, 511),
       fuse    |-> <<Word(0, 0), Word(39612, 57072), Word(0, 0), Word(0, 1)>>,
       ccgr    |-> [r \in CCGRs |->
                      IF r = CCM_CCGR6 THEN Word(43690, 21845)
                                       ELSE Word(21845, 43690)],
       family  |-> 0,
       ssm     |-> "NonSecure"] }

\* Identification register values: those of the boards, and values that
\* differ from them in bits 24-31 only, or in one of the three low bytes.
\*   0x00630105 0xa5630105 0x00640100 0xff6501ff
\*   0xff630105 0x80640100 0x006501ff 0x00650105 0xffffffff 0x00000000
DigprogValues ==
    {b.digprog : b \in Boards}
    \cup {Word(65379, 261), Word(32868, 256), Word(101, 511), Word(101, 261),
          Word(65535, 65535), Word(0, 0)}

\* Chip family values bring-up may resolve: UL, ULL, and codes Model() does
\* not know.
Families == {IMX6UL, IMX6ULL, 0, 99, 255}

\* The words a fuse read can return on the boards.
FuseWords == UNION {{b.fuse[k] : k \in 1..4} : b \in Boards}

VARIABLES
    digprog,      \* content of USB_ANALOG_DIGPROG
    fuse,         \* fuse words of bank 0: fuse[w + 1] is the word at offset w
    ccgr,         \* content of each clock gating register
    ssm,          \* SNVS security state
    Family,       \* chip family, resolved by bring-up
    mux,          \* per clock gating register: the context writing it, or "free"
    ctx,          \* per context: where it is in UniqueID() or in a driver's Init()
    calls,        \* calls started
    uid,          \* per context: what its last UniqueID() returned, or <<>>
    svResult,     \* what the last SiliconVersion() returned (a set of at most one)
    modelResult,  \* what the last Model() returned, or "none"
    habResult,    \* what the last HAB() returned (a set of at most one)
    \* history, read by the properties only
    ccgr0,        \* content of the clock gating registers at the end of bring-up
    initDone,     \* peripherals whose Init() has completed
    earlyAccess,  \* a register of a gated peripheral was accessed before its gate was enabled
    habFresh,     \* the SNVS state has not changed since the last HAB()
    habSeen,      \* the values HAB() has returned so far
    failed,       \* per context: the fuse reads of its current or last UniqueID() that failed
    firstUid,     \* what the first completed UniqueID() returned, or <<>>
    reinit        \* a repeated OCOTP.Init() changed a clock gating register

hw == <<digprog, fuse, ccgr, ssm, Family>>

sw == <<mux, ctx, calls, uid, svResult, modelResult, habResult>>

history ==
    <<ccgr0, initDone, earlyAccess, habFresh, habSeen, failed, firstUid, reinit>>

vars == <<hw, sw, history>>

Idle == [pc |-> "idle", periph |-> "none", idx |-> 0,
         r |-> U32(0), cfg0 |-> U32(0), cfg1 |-> U32(0)]

\* The state at the end of bring-up, on hardware in state h.
Booted(h) ==
    /\ digprog = h.digprog
    /\ fuse = h.fuse
    /\ ccgr = h.ccgr
    /\ ssm = h.ssm
    /\ Family = h.family
    /\ ccgr0 = h.ccgr
    /\ mux = [r \in CCGRs |-> "free"]
    /\ ctx = [c \in Ctx |-> Idle]
    /\ calls = 0
    /\ uid = [c \in Ctx |-> <<>>]
    /\ svResult = {}
    /\ modelResult = "none"
    /\ habResult = {}
    /\ initDone = {}
    /\ earlyAccess = FALSE
    /\ habFresh = FALSE
    /\ habSeen = {}
    /\ failed = [c \in Ctx |-> {}]
    /\ firstUid = <<>>
    /\ reinit = FALSE

Init == \E b \in Boards : Booted(b)

\* Any identification register value, family and SNVS state.
InitIdent ==
    \E b \in Boards, d \in DigprogValues, f \in Families, s \in SSMStates :
        Booted([b EXCEPT !.digprog = d, !.family = f, !.ssm = s])

\* ------------------------------------------------- register access

\* reg.Read(addr): the content of a memory-mapped register.
RegRead(addr) == IF addr = USB_ANALOG_DIGPROG THEN digprog ELSE ccgr[addr]

\* reg.SetN(addr, pos, mask, val) applied to the content r it has read:
\* (r & ^(mask << pos)) | (val << pos).
SetN(r, pos, mask, val) ==
    Or(And(r, Not(Shl(U32(mask), pos))), Shl(U32(val), pos))

\* The 2-bit gate field at position pos of register content r.
Field(r, pos) == r[pos] + 2 * r[pos + 1]

\* The gate of peripheral p holds the enabled encoding (0b11).
GateEnabled(p) == Field(ccgr[Peripherals[p].CCGR], Peripherals[p].CG) = 3

\* An access to a register of peripheral p (or of a block that is no
\* peripheral instance) comes too early when p names a gate and its gate
\* enable has not completed.
TooEarly(p) == p \in Gated /\ ~(p \in initDone /\ GateEnabled(p))

\* No serialization of the read-modify-write.
AcquirableAlways(r) == TRUE

\* A context may start the read-modify-write of a clock gating register
\* when no other context is inside one on that register.
Acquirable(r) == mux[r] = "free"

\* ------------------------------------------------------- accessors

\* SiliconVersion() with the mask of the family left out.
SiliconVersionNoMask(sv) ==
    [sv       |-> sv,
     family   |-> Shr(sv, 16),
     revMajor |-> And(Shr(sv, 8), U32(255)),
     revMinor |-> And(sv, U32(255))]

\* SiliconVersion() on the register value sv it has read.
SiliconVersion(sv) ==
    [sv       |-> sv,
     family   |-> And(Shr(sv, 16), U32(255)),
     revMajor |-> And(Shr(sv, 8), U32(255)),
     revMinor |-> And(sv, U32(255))]

\* The big-endian byte order.
PutUint32BigEndian(v) ==
    <<Byte(Shr(v, 24)), Byte(Shr(v, 16)), Byte(Shr(v, 8)), Byte(v)>>

\* binary.LittleEndian.PutUint32(b, v): b[0] = byte(v), b[1] = byte(v >> 8),
\* b[2] = byte(v >> 16), b[3] = byte(v >> 24).
PutUint32(v) ==
    <<Byte(v), Byte(Shr(v, 8)), Byte(Shr(v, 16)), Byte(Shr(v, 24))>>

\* OCOTP.Read(bank, word): the fuse word and no error, or 0 and an error
\* when the controller is busy or the read times out.
OCOTP_Read(bank, word, ok) ==
    IF ok /\ bank = 0 /\ word \in 0..3
    THEN [value |-> fuse[word + 1], err |-> FALSE]
    ELSE [value |-> U32(0), err |-> TRUE]

\* UniqueID() reading the first fuse word before OCOTP.Init().
UniqueIDStepsReadFirst == <<"Read1", "Init", "Read2", "Return">>

\* The statements of UniqueID(), in order.
UniqueIDSteps == <<"Init", "Read1", "Read2", "Return">>

\* The fuse word each read of UniqueID() asks for.
UniqueIDWord(step) == IF step = "Read1" THEN 1 ELSE 2

\* What UniqueID() returns for the two values it has read: uid[0:4] and
\* uid[4:8] filled by PutUint32.
UniqueID(cfg0, cfg1) ==
    [i \in 0..7 |-> IF i < 4 THEN PutUint32(cfg0)[i + 1]
                             ELSE PutUint32(cfg1)[i - 3]]

\* Model() without its default case.
ModelNoDefault ==
    CASE Family = IMX6UL -> "i.MX6UL"
      [] OTHER           -> "i.MX6ULL"

\* Model() for the resolved Family.
Model ==
    CASE Family = IMX6UL  -> "i.MX6UL"
      [] Family = IMX6ULL -> "i.MX6ULL"
      [] OTHER            -> "unknown"

\* SNVS.Available(): the SNVS is in Trusted or Secure state.
SNVS_Available == ssm \in {"Trusted", "Secure"}

\* HAB() answering from the value it returned before.
HABCached ==
    IF habResult # {} THEN CHOOSE x \in habResult : TRUE ELSE SNVS_Available

\* HAB()
HAB == SNVS_Available

\* ------------------------------------------------------- operations

\* SiliconVersion(): one read of the identification register.
SiliconVersionCall ==
    /\ svResult' = {SiliconVersion(RegRead(USB_ANALOG_DIGPROG))}
    /\ earlyAccess' = (earlyAccess \/ TooEarly("USB_ANALOG"))
    /\ UNCHANGED <<hw, mux, ctx, calls, uid, modelResult, habResult>>
    /\ UNCHANGED <<ccgr0, initDone, habFresh, habSeen, failed, firstUid, reinit>>

\* Model()
ModelCall ==
    /\ modelResult' = Model
    /\ UNCHANGED <<hw, mux, ctx, calls, uid, svResult, habResult, history>>

\* HAB(): one read of the SNVS state.
HABCall ==
    /\ habResult' = {HAB}
    /\ habFresh' = TRUE
    /\ habSeen' = habSeen \cup {HAB}
    /\ earlyAccess' = (earlyAccess \/ TooEarly("SNVS"))
    /\ UNCHANGED <<hw, mux, ctx, calls, uid, svResult, modelResult>>
    /\ UNCHANGED <<ccgr0, initDone, failed, firstUid, reinit>>

\* The SNVS state changes (a test harness toggling the mocked flag).
SNVSChange ==
    /\ ssm' \in SSMStates \ {ssm}
    /\ habFresh' = FALSE
    /\ UNCHANGED <<digprog, fuse, ccgr, Family, sw>>
    /\ UNCHANGED <<ccgr0, initDone, earlyAccess, habSeen, failed, firstUid, reinit>>

\* Init() of peripheral p, first half: the clock gate enable reads the
\* clock gating register of p.
InitBegin(c, p) ==
    LET r == Peripherals[p].CCGR IN
    /\ Acquirable(r)
    /\ mux' = [mux EXCEPT ![r] = c]
    /\ ctx' = [ctx EXCEPT ![c].pc = "rmw", ![c].periph = p, ![c].r = RegRead(r)]

\* A context calls the Init() of a gated peripheral's driver.
DriverInit(c, p) ==
    /\ ctx[c].pc = "idle"
    /\ calls < MaxCalls
    /\ calls' = calls + 1
    /\ InitBegin(c, p)
    /\ UNCHANGED <<hw, uid, svResult, modelResult, habResult, history>>

\* A context calls UniqueID().
UniqueIDCall(c) ==
    /\ ctx[c].pc = "idle"
    /\ calls < MaxCalls
    /\ calls' = calls + 1
    /\ ctx' = [ctx EXCEPT ![c].pc = "uid", ![c].idx = 1]
    /\ failed' = [failed EXCEPT ![c] = {}]
    /\ UNCHANGED <<hw, mux, uid, svResult, modelResult, habResult>>
    /\ UNCHANGED <<ccgr0, initDone, earlyAccess, habFresh, habSeen, firstUid, reinit>>

\* UniqueID(): OCOTP.Init()
UniqueIDInit(c) ==
    /\ ctx[c].pc = "uid"
    /\ UniqueIDSteps[ctx[c].idx] = "Init"
    /\ InitBegin(c, "OCOTP")
    /\ UNCHANGED <<hw, calls, uid, svResult, modelResult, habResult, history>>

\* Init() of a peripheral, second half: the clock gate enable writes the
\* register back with the gate field set to 0b11, and Init() returns.
InitEnd(c) ==
    LET p == ctx[c].periph
        r == Peripherals[p].CCGR
    IN
    /\ ctx[c].pc = "rmw"
    /\ ccgr' = [ccgr EXCEPT ![r] = SetN(ctx[c].r, Peripherals[p].CG, 3, 3)]
    /\ mux' = [mux EXCEPT ![r] = "free"]
    /\ initDone' = initDone \cup {p}
    /\ reinit' = (reinit \/ (p = "OCOTP" /\ p \in initDone /\ ccgr' # ccgr))
    /\ ctx' = [ctx EXCEPT ![c] =
                 IF ctx[c].idx = 0
                 THEN Idle
                 ELSE [Idle EXCEPT !.pc = "uid", !.idx = ctx[c].idx + 1]]
    /\ UNCHANGED <<digprog, fuse, ssm, Family>>
    /\ UNCHANGED <<calls, uid, svResult, modelResult, habResult>>
    /\ UNCHANGED <<ccgr0, earlyAccess, habFresh, habSeen, failed, firstUid>>

\* UniqueID(): cfg0, _ := OCOTP.Read(0, 1) and cfg1, _ := OCOTP.Read(0, 2).
\* The read succeeds or fails; its error is discarded.
UniqueIDRead(c) ==
    LET step == UniqueIDSteps[ctx[c].idx] IN
    /\ ctx[c].pc = "uid"
    /\ step \in {"Read1", "Read2"}
    /\ \E ok \in BOOLEAN :
         LET got == OCOTP_Read(0, UniqueIDWord(step), ok) IN
         /\ ctx' = [ctx EXCEPT
                      ![c].idx = @ + 1,
                      ![c].cfg0 = IF step = "Read1" THEN got.value ELSE @,
                      ![c].cfg1 = IF step = "Read2" THEN got.value ELSE @]
         /\ failed' = [failed EXCEPT ![c] = IF got.err THEN @ \cup {step} ELSE @]
    /\ earlyAccess' = (earlyAccess \/ TooEarly("OCOTP"))
    /\ UNCHANGED <<hw, mux, calls, uid, svResult, modelResult, habResult>>
    /\ UNCHANGED <<ccgr0, initDone, habFresh, habSeen, firstUid, reinit>>

\* UniqueID(): the two PutUint32 and the return.
UniqueIDReturn(c) ==
    LET id == UniqueID(ctx[c].cfg0, ctx[c].cfg1) IN
    /\ ctx[c].pc = "uid"
    /\ UniqueIDSteps[ctx[c].idx] = "Return"
    /\ uid' = [uid EXCEPT ![c] = id]
    /\ firstUid' = IF firstUid = <<>> THEN id ELSE firstUid
    /\ ctx' = [ctx EXCEPT ![c] = Idle]
    /\ UNCHANGED <<hw, mux, calls, svResult, modelResult, habResult>>
    /\ UNCHANGED <<ccgr0, initDone, earlyAccess, habFresh, habSeen, failed, reinit>>

\* The identification and security queries, on their own.
NextIdent ==
    \/ SiliconVersionCall
    \/ ModelCall
    \/ HABCall
    \/ SNVSChange

SpecIdent == InitIdent /\ [][NextIdent]_vars

\* Clock gate enables and UniqueID() in concurrent contexts, with the
\* queries that read registers.
Next ==
    \/ SiliconVersionCall
    \/ HABCall
    \/ \E c \in Ctx : \E p \in Gated : DriverInit(c, p)
    \/ \E c \in Ctx : UniqueIDCall(c)
    \/ \E c \in Ctx : UniqueIDInit(c)
    \/ \E c \in Ctx : InitEnd(c)
    \/ \E c \in Ctx : UniqueIDRead(c)
    \/ \E c \in Ctx : UniqueIDReturn(c)

Spec == Init /\ [][Next]_vars

\* ------------------------------------------------------- properties

\* Bit j of the byte value b.
BitOf(b, j) == (b \div Pow2(j)) % 2

\* The uint32 whose low byte is bits lo..lo+7 of v and whose other bits are 0.
ByteField(v, lo) == [i \in Bits |-> IF i < 8 THEN v[lo + i] ELSE 0]

\* A context's last UniqueID() has returned and it is in no other call of it.
Returned(c) == ctx[c].idx = 0 /\ uid[c] # <<>>

\* C1: SiliconVersion() returns the register value v as sv, bits 16-23 of v
\* as family, bits 8-15 as revMajor and bits 0-7 as revMinor; a register
\* value that differs from v in bits 24-31 only gives the same family,
\* revMajor and revMinor.
C1_SiliconVersionDecodes ==
    \A res \in svResult :
        /\ res.sv = digprog
        /\ res.family = ByteField(digprog, 16)
        /\ res.revMajor = ByteField(digprog, 8)
        /\ res.revMinor = ByteField(digprog, 0)
        /\ \A u \in DigprogValues :
             (\A i \in 0..23 : u[i] = digprog[i])
             => /\ SiliconVersion(u).family = res.family
                /\ SiliconVersion(u).revMajor = res.revMajor
                /\ SiliconVersion(u).revMinor = res.revMinor

\* SiliconVersion() has returned for 0xa5630105, whose bits 24-31 are not 0
\* and which shares its low 24 bits with 0x00630105.
C1_Witness ==
    /\ digprog = Word(42339, 261)
    /\ \E res \in svResult :
         /\ res.family = U32(99)
         /\ res.revMajor = U32(1)
         /\ res.revMinor = U32(5)

\* C2: a UniqueID() whose two fuse reads succeeded returns the bytes of the
\* fuse words at bank 0 offsets 1 and 2, least significant byte first:
\* bit j of uid[i] is bit 8i+j of the word at offset 1, and bit j of
\* uid[4+i] is bit 8i+j of the word at offset 2.
C2_UniqueIDLittleEndian ==
    \A c \in Ctx :
        (Returned(c) /\ failed[c] = {})
        => /\ DOMAIN uid[c] = 0..7
           /\ \A i \in 0..7 : uid[c][i] \in 0..255
           /\ \A i \in 0..3 : \A j \in 0..7 :
                /\ BitOf(uid[c][i], j) = fuse[2][8 * i + j]
                /\ BitOf(uid[c][4 + i], j) = fuse[3][8 * i + j]

\* UniqueID() has returned 78 56 34 12 f0 de bc 9a for the fuse words
\* 0x12345678 and 0x9abcdef0.
C2_Witness ==
    \E c \in Ctx :
        /\ Returned(c)
        /\ failed[c] = {}
        /\ fuse[2] = Word(4660, 22136)
        /\ fuse[3] = Word(39612, 57072)
        /\ uid[c] = [i \in 0..7 |-> <<120, 86, 52, 18, 240, 222, 188, 154>>[i + 1]]

\* C3: a UniqueID() one of whose fuse reads failed returns something the
\* caller can tell from a success: never an identifier that a UniqueID()
\* whose reads both succeeded could have returned.
C3_FailureSurfaced ==
    \A c \in Ctx :
        (Returned(c) /\ failed[c] # {})
        => ~ \E a \in FuseWords, b \in FuseWords : uid[c] = UniqueID(a, b)

\* The gate positions of a 32-bit clock gating register.
ValidPositions == {2 * n : n \in 0..15}

\* C4: the step that completes a clock gate enable of peripheral p, at the
\* valid position pos of its register R, leaves the field at bits pos, pos+1
\* of R at 0b11 and every other bit of R and every other clock gating
\* register as it was.
C4_EnableChangesOnlyItsField ==
    [][\A c \in Ctx :
         (ctx[c].pc = "rmw" /\ ctx'[c].pc # "rmw")
         => LET R == Peripherals[ctx[c].periph].CCGR
                pos == Peripherals[ctx[c].periph].CG
            IN  /\ pos \in ValidPositions
                /\ Field(ccgr'[R], pos) = 3
                /\ \A i \in Bits \ {pos, pos + 1} : ccgr'[R][i] = ccgr[R][i]
                /\ \A r \in CCGRs \ {R} : ccgr'[r] = ccgr[r]]_vars

\* The I2C2 gate (bits 10, 11) has been enabled in a register that held
\* 0x1b1be4e4, where the field was 0b01 and the fields around it hold
\* 0b00, 0b01, 0b10 and 0b11.
C4_Witness ==
    /\ "I2C2" \in initDone
    /\ ccgr0[CCM_CCGR2] = Word(6939, 58596)
    /\ Field(ccgr0[CCM_CCGR2], CCGRx_CG5) = 1
    /\ Field(ccgr[CCM_CCGR2], CCGRx_CG5) = 3
    /\ \A i \in Bits \ {6, 7, 10, 11, 12, 13} : ccgr[CCM_CCGR2][i] = ccgr0[CCM_CCGR2][i]

\* C5: no clock gate enable is lost: the gate field of every peripheral
\* whose Init() has completed holds 0b11, whatever other contexts did to the
\* same register meanwhile.
C5_NoLostEnable == \A p \in initDone : GateEnabled(p)

\* Two peripherals of CCM_CCGR2 have been enabled, from gates that were off,
\* and both fields hold 0b11.
C5_Witness ==
    /\ {"I2C1", "I2C2"} \subseteq initDone
    /\ Field(ccgr0[CCM_CCGR2], CCGRx_CG3) = 0
    /\ Field(ccgr0[CCM_CCGR2], CCGRx_CG5) = 0
    /\ calls = 2
    /\ GateEnabled("I2C1") /\ GateEnabled("I2C2")

\* C6: Model() returns "i.MX6UL" for the UL family, "i.MX6ULL" for the ULL
\* family and "unknown" for every other family.
C6_ModelNames ==
    modelResult # "none"
    => /\ Family = IMX6UL => modelResult = "i.MX6UL"
       /\ Family = IMX6ULL => modelResult = "i.MX6ULL"
       /\ Family \notin {IMX6UL, IMX6ULL} => modelResult = "unknown"

\* Model() has returned the sentinel for a family it does not know.
C6_Witness == modelResult = "unknown" /\ Family = 255

\* C7: a HAB() returns whether the SNVS is available at the time of the
\* call (so until the SNVS state next changes the last result equals the
\* current availability), whatever it returned before, and changes nothing
\* but its result.
C7_HABMirrorsSNVS ==
    /\ [](habFresh => habResult = {SNVS_Available})
    /\ [][(habFresh' /\ ~habFresh)
          => /\ habResult' = {SNVS_Available}
             /\ UNCHANGED <<hw, mux, ctx, calls, uid, svResult, modelResult>>]_vars

\* HAB() has returned both values, the last one after a change of the SNVS
\* state.
C7_Witness == habFresh /\ habSeen = {TRUE, FALSE}

\* C9: no register of a peripheral that names a clock gate is accessed
\* before the peripheral's gate enable has completed: not by the fuse reads
\* of UniqueID(), and not by SiliconVersion() and HAB(), whose registers
\* belong to no gated peripheral.
C9_GateBeforeAccess == ~earlyAccess

\* UniqueID() has returned, and so have SiliconVersion() and HAB(), on a
\* board whose OCOTP gate was off at the end of bring-up.
C9_Witness ==
    /\ \E c \in Ctx : Returned(c)
    /\ svResult # {}
    /\ habResult # {}
    /\ Field(ccgr0[CCM_CCGR2], CCGRx_CG6) = 0

\* C10: every UniqueID() returns the identifier the first one returned, and
\* a repeated OCOTP.Init() leaves the clock gating registers as they are.
C10_UniqueIDRepeatable ==
    /\ \A c \in Ctx : Returned(c) => uid[c] = firstUid
    /\ ~reinit

====
